---- MODULE Spec2Model ----
(***************************************************************************)
(* A model of vectfit (src/src/vectfit.cpp): Fast Relaxed Vector Fitting.  *)
(*                                                                         *)
(* One call of vectfit is a run of the state machine: argument checks,     *)
(* initialisation, the zero-model return, the pole identification stage,   *)
(* the residue identification stage and the return.                        *)
(*                                                                         *)
(* Numbers.  Complex numbers with integer parts are pairs <<re, im>>.      *)
(* A quotient of a complex integer by an integer is a record               *)
(* [re, im, d, e] standing for (re + i*im) / d * 10^e; d = 0 is a division *)
(* by zero, i.e. a non-finite value.  Doubles whose order of magnitude is  *)
(* what the code looks at (D, TOLlow, TOLhigh) are records [n, e] standing *)
(* for n * 10^e with n in {-1, 0, 1}.                                      *)
(*                                                                         *)
(* The results of the linear-algebra library (qr, lstsq, eigvals of        *)
(* xtensor-blas) are not computed: each solve is a choice among the        *)
(* values of a small set.                                                  *)
(***************************************************************************)
EXTENDS Integers, Sequences, FiniteSets, TLC

\* ------------------------------------------------------------------ bounds
\* response vectors, sample points and poles of a call
MaxNv == 2
MaxNs == 2
MaxN == 3
\* sample points of the calls with no pole and no polynomial
MaxNsZero == 3

\* ------------------------------------------------------- program constants
\* n_polys is accepted in [0, MaxPolys]
MaxPolys == 11
\* size_t is held as SizeLimbs limbs of base LimbBase (16 bits), most
\* significant first: 4 * 16 = 64 bits
LimbBase == 65536
SizeLimbs == 4

Null == "null"

\* constexpr double TOLlow = 1e-18, TOLhigh = 1e+18
TOLlow == [n |-> 1, e |-> -18]
TOLhigh == [n |-> 1, e |-> 18]

\* constexpr std::complex<double> C_ZERO {0.0, 0.0}
C_ZERO == <<0, 0>>

\* ------------------------------------------------------------ arithmetic
\* a conversion that keeps the low 16 bits only
ToSizeT_Low16(n) ==
  [i \in 1..SizeLimbs |-> IF i = SizeLimbs THEN n % LimbBase ELSE 0]

\* (size_t) of an int: sign extension to 64 bits, i.e. n mod 2^64
ToSizeT(n) ==
  LET ext == IF n < 0 THEN LimbBase - 1 ELSE 0
  IN  [i \in 1..SizeLimbs |->
         IF i = SizeLimbs THEN n % LimbBase
         ELSE IF i = SizeLimbs - 1 THEN (n \div LimbBase) % LimbBase
         ELSE ext]

\* unsigned comparison a < b of two size_t values
RECURSIVE SizeLTFrom(_, _, _)
SizeLTFrom(a, b, i) ==
  IF i > SizeLimbs THEN FALSE
  ELSE IF a[i] # b[i] THEN a[i] < b[i]
  ELSE SizeLTFrom(a, b, i + 1)

SizeLT(a, b) == SizeLTFrom(a, b, 1)

\* the value of a size_t that is known to be small (one limb)
SizeVal(c) == c[SizeLimbs]

Re(p) == p[1]
Im(p) == p[2]
Conj(p) == <<p[1], -p[2]>>

RECURSIVE Pow(_, _)
Pow(b, k) == IF k = 0 THEN 1 ELSE b * Pow(b, k - 1)

Abs(a) == IF a < 0 THEN -a ELSE a

RECURSIVE GCD(_, _)
GCD(a, b) == IF b = 0 THEN a ELSE GCD(b, a % b)

\* a fraction n/d in lowest terms, d > 0; d = 0 is a non-finite value
Frac(n, d) ==
  IF d = 0 THEN [n |-> 1, d |-> 0]
  ELSE LET g == GCD(Abs(n), Abs(d))
           sg == IF d < 0 THEN -1 ELSE 1
       IN  [n |-> sg * (n \div g), d |-> sg * (d \div g)]
\* sums are formed over the least common denominator
FAdd(a, b) ==
  IF a.d = 0 \/ b.d = 0 THEN Frac(1, 0)
  ELSE LET g == GCD(a.d, b.d)
       IN  Frac(a.n * (b.d \div g) + b.n * (a.d \div g), (a.d \div g) * b.d)
FNeg(a) == [n |-> -a.n, d |-> a.d]
FSub(a, b) == IF a.d = 0 \/ b.d = 0 THEN Frac(1, 0) ELSE FAdd(a, FNeg(b))
FSquare(a) == Frac(a.n * a.n, a.d * a.d)

RECURSIVE FSum(_, _)
\* the sum t[1] + ... + t[k] of a sequence of fractions
FSum(t, k) == IF k = 0 THEN Frac(0, 1) ELSE FAdd(FSum(t, k - 1), t[k])

\* the quotient (re + i*im) / d * 10^e
Quot(re, im, d, e) == [re |-> re, im |-> im, d |-> d, e |-> e]
QInt(v) == Quot(v, 0, 1, 0)
QAdd(a, b) == Quot(a.re * b.d + b.re * a.d, a.im * b.d + b.im * a.d, a.d * b.d, 0)
QSub(a, b) == Quot(a.re * b.d - b.re * a.d, a.im * b.d - b.im * a.d, a.d * b.d, 0)
\* 1i * a
QMulI(a) == Quot(-a.im, a.re, a.d, a.e)
\* xt::isinf
IsInf(a) == a.d = 0
\* 1. / (sk - p) for a real sample sk and a complex pole p: the conjugate of
\* sk - p over the square of its modulus; 1. / (0 + 0i) is infinite
Recip(sk, p) ==
  IF sk - Re(p) = 0 /\ Im(p) = 0 THEN Quot(1, 0, 0, 0)
  ELSE Quot(sk - Re(p), Im(p), (sk - Re(p)) * (sk - Re(p)) + Im(p) * Im(p), 0)

\* |a| < |b| and |a| > |b| for doubles n * 10^e, n in {-1, 0, 1}
AbsLT(a, b) == b.n # 0 /\ (a.n = 0 \/ a.e < b.e)
AbsGT(a, b) == AbsLT(b, a)

\* ---------------------------------------------------------------- inputs
PoleVals == {<<1, 0>>, <<1, 2>>, <<1, -2>>, <<3, 4>>}
NPolysVals == {-2147483647, -1, 0, 1, MaxPolys, MaxPolys + 1}
NPolysStages == {0, 1, 2}
FVals == 0..3
\* the sample points 1, 2, ... or 2, 3, ...
SData(ns) == {[k \in 1..ns |-> k + off] : off \in {0, 1}}
\* the values a solved coefficient takes
CoefVals == {0, 1}
\* the values the relaxed solve gives D
DVals == {[n |-> 0, e |-> 0]} \cup
         {[n |-> 1, e |-> ex] : ex \in {-19, -18, 0, 18, 19}} \cup
         {[n |-> -1, e |-> ex] : ex \in {-19, 19}}

SeqsOf(S, lo, hi) == UNION {[1..k -> S] : k \in lo..hi}
Matrix(S, nv, ns) == [1..nv -> [1..ns -> S]]
Const(v, nv, ns) == [i \in 1..nv |-> [j \in 1..ns |-> v]]
\* the solutions a least-squares solve for len unknowns may return
SolVecs(len) ==
  {[i \in 1..len |-> IF i % 2 = 1 THEN a ELSE b] : a, b \in CoefVals}

\* an array: its shape and, for the arrays whose entries are read, its data
Shapes2 == {<<nv, ns>> : nv \in 1..MaxNv, ns \in 1..MaxNs}
ShapesAny == Shapes2 \cup {<<ns>> : ns \in 1..MaxNs}
                     \cup {<<sh[1], sh[2], 1>> : sh \in Shapes2}
SShapes == {<<ns>> : ns \in 1..MaxNs} \cup {<<ns, 1>> : ns \in 1..MaxNs}
\* the shape of f, and shapes that differ from it in an extent or in the rank
WeightShapes(sh) == {sh, <<sh[1] + 1>> \o Tail(sh), <<sh[1]>>, sh \o <<1>>}

VARIABLES
  f, s, weight, n_polys, skip_pole, skip_res,  \* the arguments
  poles0,      \* the pole sequence as supplied
  poles,       \* the pole sequence (the argument, assigned by the pole stage)
  pc,          \* position in vectfit
  err,         \* the exception thrown, or Null
  residues, polys, fit, rmserr,                \* the outputs
  cindex, Dk,  \* the classification and the basis matrix of the running stage
  C, D,        \* numerator coefficients and denominator of sigma (line 230, 231)
  xlast,       \* x(x.size() - 1), the last entry of the relaxed solution
  Cin,         \* the C declared inside the fallback block (line 290)
  ZER,         \* the operands of ZER (line 318)
  Cr,          \* the solved real coefficients (line 367)
  writes,      \* how many times the recombination wrote each residue column
  stages,      \* the stages entered so far
  allocated,   \* have the output arrays been constructed?
  result       \* the returned tuple, or Null

vars == <<f, s, weight, n_polys, skip_pole, skip_res, poles0, poles, pc, err,
          residues, polys, fit, rmserr, cindex, Dk, C, D, xlast, Cin, ZER,
          Cr, writes, stages, allocated, result>>

args == <<f, s, weight, n_polys, skip_pole, skip_res, poles0>>
outs == <<residues, polys, fit, rmserr, allocated>>
locals == <<cindex, Dk, C, D, xlast, Cin, ZER, Cr, writes>>

\* ------------------------------------------------------------ dimensions
Nv == f.shape[1]
Ns == f.shape[2]
N == Len(poles)
Nc == ToSizeT(n_polys)
NcVal == SizeVal(Nc)

\* ------------------------------------------------------------------ Init
InitCommon ==
  /\ poles = poles0
  /\ pc = "args"
  /\ err = Null
  /\ residues = Null /\ polys = Null /\ fit = Null /\ rmserr = Null
  /\ cindex = Null /\ Dk = Null /\ C = Null /\ D = Null /\ Cin = Null
  /\ xlast = Null
  /\ ZER = Null /\ Cr = Null /\ writes = Null
  /\ stages = {}
  /\ allocated = FALSE
  /\ result = Null

\* calls that exercise the argument checks: any ranks and shapes, any n_polys
InitArgs ==
  /\ \E sh \in ShapesAny :
       f = [shape |-> sh,
            data |-> IF Len(sh) = 2 THEN Const(1, sh[1], sh[2]) ELSE <<>>]
  /\ \E sh \in SShapes : s = [shape |-> sh, data |-> [k \in 1..sh[1] |-> 1]]
  /\ \E sh \in WeightShapes(f.shape) : weight = [shape |-> sh]
  /\ n_polys \in NPolysVals
  /\ skip_pole \in BOOLEAN
  /\ skip_res = TRUE
  /\ poles0 \in {<<>>, <<<<1, 0>>>>}

\* calls with no pole and no polynomial: one response vector, any target f
InitZero ==
  /\ \E ns \in 1..MaxNsZero :
       /\ f \in {[shape |-> <<1, ns>>, data |-> m] : m \in Matrix(FVals, 1, ns)}
       /\ s = [shape |-> <<ns>>, data |-> [k \in 1..ns |-> k]]
       /\ weight = [shape |-> <<1, ns>>]
  /\ n_polys = 0
  /\ skip_pole \in BOOLEAN
  /\ skip_res \in BOOLEAN
  /\ poles0 = <<>>

\* calls that pass the argument checks and run the stages
InitStages ==
  /\ \E sh \in Shapes2 :
       /\ f = [shape |-> sh, data |-> Const(1, sh[1], sh[2])]
       /\ s \in {[shape |-> <<sh[2]>>, data |-> d] : d \in SData(sh[2])}
       /\ weight = [shape |-> sh]
  /\ n_polys \in NPolysStages
  /\ skip_pole \in BOOLEAN
  /\ skip_res \in BOOLEAN
  /\ poles0 \in SeqsOf(PoleVals, 0, MaxN)

Init == (InitArgs \/ InitZero \/ InitStages) /\ InitCommon

\* ---------------------------------------------------------- argument checks
Throw(what) ==
  /\ pc' = "threw"
  /\ err' = what
  /\ UNCHANGED <<args, poles, outs, locals, stages, result>>

\* the first argument check that fails, or Null (lines 68-95)
ArgumentError ==
  IF Len(f.shape) # 2 THEN "invalid_argument: f is not 2-dimensional"
  ELSE IF Len(s.shape) # 1 THEN "invalid_argument: s is not 1-dimensional"
  ELSE IF Ns # s.shape[1] THEN "invalid_argument: f does not match s"
  ELSE IF f.shape # weight.shape THEN "invalid_argument: weight does not match f"
  ELSE IF SizeLT(Nc, ToSizeT(0)) \/ SizeLT(ToSizeT(MaxPolys), Nc)
       THEN "invalid_argument: n_polys is not in range"
  ELSE Null

CheckArguments ==
  /\ pc = "args"
  /\ IF ArgumentError # Null
     THEN Throw(ArgumentError)
     ELSE /\ pc' = "init"
          /\ UNCHANGED <<args, poles, err, outs, locals, stages, result>>

\* lines 97-101
Initialize ==
  /\ pc = "init"
  /\ residues' = Const(C_ZERO, Nv, N)
  /\ polys' = Const(0, Nv, NcVal)
  /\ fit' = Const(Frac(0, 1), Nv, Ns)
  /\ rmserr' = Frac(0, 1)
  /\ allocated' = TRUE
  /\ pc' = "zero_check"
  /\ UNCHANGED <<args, poles, err, locals, stages, result>>

RECURSIVE SumSq(_, _, _)
\* the sum of the squares of the first k entries of f in row-major order
SumSq(m, ns, k) ==
  IF k = 0 THEN 0
  ELSE LET v == m[((k - 1) \div ns) + 1][((k - 1) % ns) + 1]
       IN  SumSq(m, ns, k - 1) + v * v

\* the tuple made by std::make_tuple (lines 107 and 443)
ResultTuple(r, p, pl, e, ft) ==
  [residues |-> r, polys |-> p, poles |-> pl, rmserr |-> e, fit |-> ft]

\* the early return without the assignment of rmserr
ZeroModelReturn_NoRms ==
  /\ pc = "zero_check"
  /\ N = 0 /\ NcVal = 0
  /\ result' = ResultTuple(residues, polys, poles, rmserr, fit)
  /\ pc' = "returned"
  /\ UNCHANGED <<args, poles, err, outs, locals, stages>>

\* lines 103-108; rmserr holds the square of the RMS error
ZeroModelReturn ==
  /\ pc = "zero_check"
  /\ N = 0 /\ NcVal = 0
  /\ rmserr' = Frac(SumSq(f.data, Ns, Nv * Ns), Nv * Ns)
  /\ result' = ResultTuple(residues, polys, poles, rmserr', fit)
  /\ pc' = "returned"
  /\ UNCHANGED <<args, poles, err, residues, polys, fit, allocated, locals,
                 stages>>

EnterStages ==
  /\ pc = "zero_check"
  /\ ~(N = 0 /\ NcVal = 0)
  /\ pc' = "pole_guard"
  /\ UNCHANGED <<args, poles, err, outs, locals, stages, result>>

\* a skipped pole stage that goes to the return
SkipPoleStage_ToReturn ==
  /\ pc = "pole_guard"
  /\ ~(~skip_pole /\ N > 0)
  /\ pc' = "return"
  /\ UNCHANGED <<args, poles, err, outs, locals, stages, result>>

\* line 116, condition false
SkipPoleStage ==
  /\ pc = "pole_guard"
  /\ ~(~skip_pole /\ N > 0)
  /\ pc' = "res_guard"
  /\ UNCHANGED <<args, poles, err, outs, locals, stages, result>>


\* ----------------------------------------------------- pole classification
NotConjugatePairs == "invalid_argument: complex poles are not conjugate pairs"
UnknownCindex == "runtime_error: unknown cindex value"

RECURSIVE ScanFrom_NoConjugateTest(_, _, _)
\* the loop without the comparison of poles(m + 1) with conj(poles(m))
ScanFrom_NoConjugateTest(pl, m, ci) ==
  IF m > Len(pl) THEN [ok |-> TRUE, tags |-> ci]
  ELSE IF Im(pl[m]) # 0
       THEN IF m = 1 \/ (m > 1 /\ (ci[m - 1] = 0 \/ ci[m - 1] = 2))
            THEN IF m >= Len(pl)
                 THEN [ok |-> FALSE, tags |-> ci]
                 ELSE ScanFrom_NoConjugateTest(pl, m + 2,
                        [ci EXCEPT ![m] = 1, ![m + 1] = 2])
            ELSE ScanFrom_NoConjugateTest(pl, m + 1, ci)
       ELSE ScanFrom_NoConjugateTest(pl, m + 1, ci)

RECURSIVE ScanFrom(_, _, _)
\* The cindex loop from position m on (the code's m is m - 1): the tags
\* 0-real, 1-complex, 2-conjugate, and whether the loop ended without throwing.
ScanFrom(pl, m, ci) ==
  IF m > Len(pl) THEN [ok |-> TRUE, tags |-> ci]
  ELSE IF Im(pl[m]) # 0
       THEN IF m = 1 \/ (m > 1 /\ (ci[m - 1] = 0 \/ ci[m - 1] = 2))
            THEN IF m >= Len(pl) \/ Conj(pl[m]) # pl[m + 1]
                 THEN [ok |-> FALSE, tags |-> ci]
                 ELSE ScanFrom(pl, m + 2, [ci EXCEPT ![m] = 1, ![m + 1] = 2])
            ELSE ScanFrom(pl, m + 1, ci)
       ELSE ScanFrom(pl, m + 1, ci)

\* the loop started at the second pole
Classify_FromSecond(pl) == ScanFrom(pl, 2, [m \in 1..Len(pl) |-> 0])

\* lines 119-136 and 328-345
Classify(pl) == ScanFrom(pl, 1, [m \in 1..Len(pl) |-> 0])

\* ------------------------------------------------------------ basis matrix
\* the column of pole m at sample sk (lines 143-151 and 352-360)
BasisEntry(sk, p, tag) ==
  IF tag = 0 THEN Recip(sk, p)
  ELSE IF tag = 1 THEN QAdd(Recip(sk, p), Recip(sk, Conj(p)))
  ELSE QSub(QMulI(Recip(sk, Conj(p))), QMulI(Recip(sk, p)))

\* xt::filter(Dk, xt::isinf(Dk)) = TOLhigh + 0.0i (line 155)
FilterInf(q) == IF IsInf(q) THEN Quot(TOLhigh.n, 0, 1, TOLhigh.e) ELSE q

Max(a, b) == IF a > b THEN a ELSE b

\* Dk of pole identification, Ns x (N + max(Nc, 1)) (lines 139-162)
PoleDk(sd, pl, ci, nc) ==
  [k \in 1..Len(sd) |->
     [m \in 1..(Len(pl) + Max(nc, 1)) |->
        IF m <= Len(pl) THEN FilterInf(BasisEntry(sd[k], pl[m], ci[m]))
        ELSE IF m = Len(pl) + 1 THEN QInt(1)
        ELSE QInt(Pow(sd[k], m - Len(pl) - 1))]]

\* Dk of residue identification, Ns x (N + Nc) (lines 349-365)
ResDk(sd, pl, ci, nc) ==
  [k \in 1..Len(sd) |->
     [m \in 1..(Len(pl) + nc) |->
        IF m <= Len(pl) THEN BasisEntry(sd[k], pl[m], ci[m])
        ELSE QInt(Pow(sd[k], m - Len(pl) - 1))]]

\* --------------------------------------------------- pole identification
\* the stage entered whatever skip_pole is
PoleClassify_IgnoreSkip ==
  /\ pc = "pole_guard"
  /\ N > 0
  /\ stages' = stages \cup {"pole"}
  /\ IF ~Classify(poles).ok
     THEN /\ pc' = "threw"
          /\ err' = NotConjugatePairs
          /\ UNCHANGED cindex
     ELSE /\ pc' = "pole_basis"
          /\ cindex' = Classify(poles).tags
          /\ UNCHANGED err
  /\ UNCHANGED <<args, poles, outs, Dk, C, D, xlast, Cin, ZER, Cr, writes, result>>

\* line 116, condition true; lines 118-136
PoleClassify ==
  /\ pc = "pole_guard"
  /\ ~skip_pole /\ N > 0
  /\ stages' = stages \cup {"pole"}
  /\ IF ~Classify(poles).ok
     THEN /\ pc' = "threw"
          /\ err' = NotConjugatePairs
          /\ UNCHANGED cindex
     ELSE /\ pc' = "pole_basis"
          /\ cindex' = Classify(poles).tags
          /\ UNCHANGED err
  /\ UNCHANGED <<args, poles, outs, Dk, C, D, xlast, Cin, ZER, Cr, writes, result>>

\* lines 138-162
PoleBuildDk ==
  /\ pc = "pole_basis"
  /\ IF \E m \in 1..N : cindex[m] \notin {0, 1, 2}
     THEN Throw(UnknownCindex)
     ELSE /\ Dk' = PoleDk(s.data, poles, cindex, NcVal)
          /\ pc' = "pole_solve"
          /\ UNCHANGED <<args, poles, err, outs, cindex, C, D, xlast, Cin, ZER, Cr,
                         writes, stages, result>>

\* Lines 164-231: scale, the blocks of AA and bb by QR, Escale, lstsq.  The
\* solution x is what the library returns: C its first N entries, D its last.
PoleRelaxedSolve ==
  /\ pc = "pole_solve"
  /\ \E c \in SolVecs(N), d \in DVals :
       /\ C' = c
       /\ D' = d
       /\ xlast' = d
  /\ pc' = "pole_D"
  /\ UNCHANGED <<args, poles, err, outs, cindex, Dk, Cin, ZER, Cr, writes,
                 stages, result>>

\* line 235
Degenerate(d) == AbsLT(d, TOLlow) \/ AbsGT(d, TOLhigh)

Neg(v) == [n |-> -v.n, e |-> v.e]

\* lines 239-250, xl being x(x.size() - 1)
ClampD(xl, d) ==
  IF xl.n = 0 THEN [n |-> 1, e |-> 0]
  ELSE IF AbsLT(xl, TOLlow) THEN IF xl.n > 0 THEN TOLlow ELSE Neg(TOLlow)
  ELSE IF AbsGT(xl, TOLhigh) THEN IF xl.n > 0 THEN TOLhigh ELSE Neg(TOLhigh)
  ELSE d

\* Lines 235-292, condition true: D is clamped and the reduced system is
\* solved.  Its solution goes to the C that line 290 declares inside the
\* block; the C of line 230 is left as it is.
PoleFallback ==
  /\ pc = "pole_D"
  /\ Degenerate(D)
  /\ D' = ClampD(xlast, D)
  /\ \E c \in SolVecs(N) : Cin' = c
  /\ pc' = "pole_zeros"
  /\ UNCHANGED <<args, poles, err, outs, cindex, Dk, C, xlast, ZER, Cr, writes,
                 stages, result>>

\* line 235, condition false
PoleNoFallback ==
  /\ pc = "pole_D"
  /\ ~Degenerate(D)
  /\ pc' = "pole_zeros"
  /\ UNCHANGED <<args, poles, err, outs, locals, stages, result>>

\* lines 295-314
LAMBD(pl, ci) ==
  [i \in 1..Len(pl) |-> [j \in 1..Len(pl) |->
     IF i = j /\ ci[i] = 0 THEN Re(pl[i])
     ELSE IF i = j /\ ci[i] = 1 THEN Re(pl[i])
     ELSE IF i = j /\ ci[i] = 2 /\ i > 1 /\ ci[i - 1] = 1 THEN Re(pl[i - 1])
     ELSE IF i = j + 1 /\ ci[j] = 1 THEN -Im(pl[j])
     ELSE IF j = i + 1 /\ ci[i] = 1 THEN Im(pl[i])
     ELSE 0]]

\* Lines 296, 311, 312.  SERB has shape {N, 1}: the index 1 in its second
\* dimension, of extent 1 and stride 0, addresses column 0.
SERB(pl, ci) ==
  [i \in 1..Len(pl) |->
     IF ci[i] = 1 THEN 2
     ELSE IF i > 1 /\ ci[i - 1] = 1 THEN 0
     ELSE 1]

\* the operands of LAMBD - dot(SERB, C) / D (lines 317-318)
ZerOf(pl, ci, c, d) ==
  [LAMBD |-> LAMBD(pl, ci), SERB |-> SERB(pl, ci), C |-> c, D |-> d]

\* lines 294-318
PoleFormZER ==
  /\ pc = "pole_zeros"
  /\ ZER' = ZerOf(poles, cindex, C, D)
  /\ pc' = "pole_eig"
  /\ UNCHANGED <<args, poles, err, outs, cindex, Dk, C, D, xlast, Cin, Cr,
                 writes, stages, result>>

\* does q hold each value as often as its conjugate?
ConjClosed(q) ==
  \A v \in PoleVals :
    Cardinality({i \in DOMAIN q : q[i] = v}) =
    Cardinality({i \in DOMAIN q : q[i] = Conj(v)})

\* what eigvals may return for a real n x n matrix: n values, in any order
EigSeqs == [n \in 0..MaxN |-> {q \in [1..n -> PoleVals] : ConjClosed(q)}]

\* lines 319-320: the poles are replaced, the stage's locals end
PoleUpdate ==
  /\ pc = "pole_eig"
  /\ poles' \in EigSeqs[N]
  /\ cindex' = Null /\ Dk' = Null /\ C' = Null /\ D' = Null /\ Cin' = Null
  /\ xlast' = Null /\ ZER' = Null
  /\ pc' = "res_guard"
  /\ UNCHANGED <<args, err, outs, Cr, writes, stages, result>>

\* ------------------------------------------------ residue identification
\* line 325, condition false
SkipResStage ==
  /\ pc = "res_guard"
  /\ skip_res
  /\ pc' = "return"
  /\ UNCHANGED <<args, poles, err, outs, locals, stages, result>>

\* the stage entered whatever skip_res is
ResClassify_IgnoreSkip ==
  /\ pc = "res_guard"
  /\ stages' = stages \cup {"residue"}
  /\ IF ~Classify(poles).ok
     THEN /\ pc' = "threw"
          /\ err' = NotConjugatePairs
          /\ UNCHANGED cindex
     ELSE /\ pc' = "res_basis"
          /\ cindex' = Classify(poles).tags
          /\ UNCHANGED err
  /\ UNCHANGED <<args, poles, outs, Dk, C, D, xlast, Cin, ZER, Cr, writes, result>>

\* line 325, condition true; lines 327-345
ResClassify ==
  /\ pc = "res_guard"
  /\ ~skip_res
  /\ stages' = stages \cup {"residue"}
  /\ IF ~Classify(poles).ok
     THEN /\ pc' = "threw"
          /\ err' = NotConjugatePairs
          /\ UNCHANGED cindex
     ELSE /\ pc' = "res_basis"
          /\ cindex' = Classify(poles).tags
          /\ UNCHANGED err
  /\ UNCHANGED <<args, poles, outs, Dk, C, D, xlast, Cin, ZER, Cr, writes, result>>

\* lines 347-365
ResBuildDk ==
  /\ pc = "res_basis"
  /\ IF \E m \in 1..N : cindex[m] \notin {0, 1, 2}
     THEN Throw(UnknownCindex)
     ELSE /\ Dk' = ResDk(s.data, poles, cindex, NcVal)
          /\ pc' = "res_solve"
          /\ UNCHANGED <<args, poles, err, outs, cindex, C, D, xlast, Cin, ZER, Cr,
                         writes, stages, result>>

\* Lines 367-399: for each response vector n the solution x of lstsq(A, b) is
\* what the library returns; Cr(n) is x[0, N), polys(n) is x[N, N + Nc).
ResSolve ==
  /\ pc = "res_solve"
  /\ \E x \in [1..Nv -> SolVecs(N + NcVal)] :
       /\ Cr' = [n \in 1..Nv |-> [m \in 1..N |-> x[n][m]]]
       /\ polys' = IF NcVal > 0
                   THEN [n \in 1..Nv |-> [m \in 1..NcVal |-> x[n][N + m]]]
                   ELSE polys
  /\ pc' = "res_recombine"
  /\ UNCHANGED <<args, poles, err, residues, fit, rmserr, allocated, cindex,
                 Dk, C, D, xlast, Cin, ZER, writes, stages, result>>

\* column m of the residues set to the complex numbers col[n]
SetColumn(res, m, col) ==
  [n \in DOMAIN res |-> [res[n] EXCEPT ![m] = col[n]]]

RECURSIVE RecombineFrom_SameSign(_, _, _, _, _)
\* the loop with residues(n, m + 1) = r1 + 1i * r2
RecombineFrom_SameSign(m, ci, cr, res, w) ==
  IF m > Len(ci) THEN [residues |-> res, writes |-> w]
  ELSE IF ci[m] = 0
       THEN RecombineFrom_SameSign(m + 1, ci, cr,
              SetColumn(res, m, [n \in DOMAIN res |-> <<cr[n][m], 0>>]),
              [w EXCEPT ![m] = @ + 1])
  ELSE IF ci[m] = 1
       THEN RecombineFrom_SameSign(m + 1, ci, cr,
              SetColumn(
                SetColumn(res, m,
                  [n \in DOMAIN res |-> <<cr[n][m], cr[n][m + 1]>>]),
                m + 1, [n \in DOMAIN res |-> <<cr[n][m], cr[n][m + 1]>>]),
              [w EXCEPT ![m] = @ + 1, ![m + 1] = @ + 1])
  ELSE RecombineFrom_SameSign(m + 1, ci, cr, res, w)

RECURSIVE RecombineFrom(_, _, _, _, _)
\* The loop of lines 402-421 from pole m on: the residues and, for each
\* column, the number of times the loop assigned it.
RecombineFrom(m, ci, cr, res, w) ==
  IF m > Len(ci) THEN [residues |-> res, writes |-> w]
  ELSE IF ci[m] = 0
       THEN RecombineFrom(m + 1, ci, cr,
              SetColumn(res, m, [n \in DOMAIN res |-> <<cr[n][m], 0>>]),
              [w EXCEPT ![m] = @ + 1])
  ELSE IF ci[m] = 1
       THEN RecombineFrom(m + 1, ci, cr,
              SetColumn(
                SetColumn(res, m,
                  [n \in DOMAIN res |-> <<cr[n][m], cr[n][m + 1]>>]),
                m + 1, [n \in DOMAIN res |-> <<cr[n][m], -cr[n][m + 1]>>]),
              [w EXCEPT ![m] = @ + 1, ![m + 1] = @ + 1])
  ELSE RecombineFrom(m + 1, ci, cr, res, w)

\* lines 401-421
ResRecombine ==
  /\ pc = "res_recombine"
  /\ LET r == RecombineFrom(1, cindex, Cr, residues, [m \in 1..N |-> 0])
     IN  /\ residues' = r.residues
         /\ writes' = r.writes
  /\ pc' = "res_fit"
  /\ UNCHANGED <<args, poles, err, polys, fit, rmserr, allocated, cindex, Dk,
                 C, D, xlast, Cin, ZER, Cr, stages, result>>

\* real(Dk2(k, m) * residues(n, m)), Dk2(k, m) = 1.0 / (s(k) - poles(m))
\* (lines 427, 431)
PoleTerm(sk, p, r) ==
  LET q == Recip(sk, p)
  IN  Frac(Re(r) * q.re - Im(r) * q.im, q.d)

\* fit(n, k) (lines 424-437)
FitEntry(sk, pl, resn, polyn) ==
  FAdd(FSum([m \in 1..Len(pl) |-> PoleTerm(sk, pl[m], resn[m])], Len(pl)),
       FSum([m \in 1..Len(polyn) |-> Frac(Pow(sk, m - 1) * polyn[m], 1)],
            Len(polyn)))

FitOf(sd, pl, res, pol) ==
  [n \in DOMAIN res |-> [k \in 1..Len(sd) |-> FitEntry(sd[k], pl, res[n], pol[n])]]

\* the square of norm(ft - f) / sqrt(Nv * Ns) (line 440)
RmsSq(ft, fd, nv, ns) ==
  LET sq == [i \in 1..(nv * ns) |->
               LET n == ((i - 1) \div ns) + 1
                   k == ((i - 1) % ns) + 1
               IN  FSquare(FSub(ft[n][k], Frac(fd[n][k], 1)))]
      tot == FSum(sq, nv * ns)
  IN  Frac(tot.n, tot.d * nv * ns)

\* lines 423-441: the fit, the RMS error; the stage's locals end
ResFit ==
  /\ pc = "res_fit"
  /\ fit' = FitOf(s.data, poles, residues, polys)
  /\ rmserr' = RmsSq(fit', f.data, Nv, Ns)
  /\ cindex' = Null /\ Dk' = Null /\ Cr' = Null /\ writes' = Null
  /\ pc' = "return"
  /\ UNCHANGED <<args, poles, err, residues, polys, allocated, C, D, xlast, Cin, ZER,
                 stages, result>>

\* line 443
Return ==
  /\ pc = "return"
  /\ result' = ResultTuple(residues, polys, poles, rmserr, fit)
  /\ pc' = "returned"
  /\ UNCHANGED <<args, poles, err, outs, locals, stages>>

Next ==
  \/ CheckArguments
  \/ Initialize
  \/ ZeroModelReturn
  \/ EnterStages
  \/ SkipPoleStage
  \/ PoleClassify
  \/ PoleBuildDk
  \/ PoleRelaxedSolve
  \/ PoleFallback
  \/ PoleNoFallback
  \/ PoleFormZER
  \/ PoleUpdate
  \/ SkipResStage
  \/ ResClassify
  \/ ResBuildDk
  \/ ResSolve
  \/ ResRecombine
  \/ ResFit
  \/ Return

Spec == Init /\ [][Next]_vars

\* ================================================================ claims
N0 == Len(poles0)
BothSkipped == skip_pole /\ skip_res
ZeroModel == N0 = 0 /\ n_polys = 0
InvalidArgumentErrors ==
  {"invalid_argument: f is not 2-dimensional",
   "invalid_argument: s is not 1-dimensional",
   "invalid_argument: f does not match s",
   "invalid_argument: weight does not match f",
   "invalid_argument: n_polys is not in range"}

RECURSIVE PairedFrom(_, _)
\* from position m on, pl holds only real poles and adjacent pairs (p, conj(p))
PairedFrom(pl, m) ==
  IF m > Len(pl) THEN TRUE
  ELSE IF Im(pl[m]) = 0 THEN PairedFrom(pl, m + 1)
  ELSE /\ m + 1 <= Len(pl)
       /\ pl[m + 1] = <<Re(pl[m]), -Im(pl[m])>>
       /\ PairedFrom(pl, m + 2)

Paired(pl) == PairedFrom(pl, 1)

AllZero(mat, zero) ==
  \A n \in DOMAIN mat : \A m \in DOMAIN mat[n] : mat[n][m] = zero

\* C1, as stated: whenever vectfit returns normally, whatever skip_pole, skip_res
\* and n_polys are, the pole sequence supplied holds only real poles and
\* adjacent pairs (p, conj(p)).
C1_AnyReturnHasPairedPoles ==
  pc = "returned" => Paired(poles0)

\* C1, amended: whenever vectfit returns normally and skip_pole and skip_res
\* are not both true, the pole sequence supplied holds only real poles and
\* adjacent pairs (p, conj(p)); a call that passes the argument checks with
\* such flags and an unpaired sequence ends with the 'not conjugate pairs'
\* error.
C1_ClassifiedReturnHasPairedPoles ==
  /\ (pc = "returned" /\ ~BothSkipped) => Paired(poles0)
  /\ (pc \in {"returned", "threw"} /\ ~BothSkipped /\ ~Paired(poles0)
        /\ err \notin InvalidArgumentErrors)
       => (pc = "threw" /\ err = NotConjugatePairs)

C1_Witness ==
  /\ pc = "returned"
  /\ ~BothSkipped
  /\ \E m \in 1..N0 : Im(poles0[m]) # 0

\* the conditions under which the spec says the validation fails
InvalidCall ==
  \/ Len(f.shape) # 2
  \/ Len(s.shape) # 1
  \/ s.shape[1] # f.shape[2]
  \/ weight.shape # f.shape
  \/ n_polys < 0
  \/ n_polys > 11

\* C2: if f is not rank 2, or s is not rank 1, or len(s) differs from f's
\* second dimension, or weight's shape differs from f's, or n_polys is outside
\* [0, 11] (every negative n_polys included), vectfit throws an
\* invalid-argument error before any output array is allocated and before
\* either stage starts, and no result tuple is produced.
C2_InvalidCallFailsFast ==
  InvalidCall =>
    /\ pc \in {"args", "threw"}
    /\ pc = "threw" => err \in InvalidArgumentErrors
    /\ ~allocated
    /\ stages = {}

C2_Witness ==
  /\ pc = "threw"
  /\ n_polys < 0
  /\ Len(f.shape) = 2 /\ s.shape = <<f.shape[2]>> /\ weight.shape = f.shape
  /\ err = "invalid_argument: n_polys is not in range"

\* the sum of the squares of the entries of a matrix
SquaresOf(mat) ==
  LET cells == {<<n, k>> : n \in DOMAIN mat, k \in 1..Len(mat[1])}
      RECURSIVE Sum(_)
      Sum(S) == IF S = {} THEN 0
                ELSE LET c == CHOOSE c \in S : TRUE
                     IN  mat[c[1]][c[2]] * mat[c[1]][c[2]] + Sum(S \ {c})
  IN  Sum(cells)

\* C3: a validated call with no pole and n_polys = 0 returns, whatever
\* skip_pole and skip_res are, without entering either stage, with residues
\* and polynomial coefficients of shape Nv x 0, the empty pole sequence, a fit
\* that is zero at each of the Nv x Ns positions and an RMS error whose square
\* is the sum of the squares of f over Nv * Ns (14/3 for f = [1, 2, 3]).
C3_ZeroModel ==
  (pc = "returned" /\ ZeroModel) =>
    /\ stages = {}
    /\ result.residues = [n \in 1..Nv |-> <<>>]
    /\ result.polys = [n \in 1..Nv |-> <<>>]
    /\ result.poles = <<>>
    /\ DOMAIN result.fit = 1..Nv
    /\ \A n \in 1..Nv :
         /\ DOMAIN result.fit[n] = 1..Ns
         /\ \A k \in 1..Ns : result.fit[n][k] = [n |-> 0, d |-> 1]
    /\ result.rmserr.n * (Nv * Ns) = SquaresOf(f.data) * result.rmserr.d
    /\ result.rmserr.d > 0
    /\ f.data = <<<<1, 2, 3>>>> => result.rmserr = [n |-> 14, d |-> 3]

C3_Witness ==
  /\ pc = "returned"
  /\ ZeroModel
  /\ f.data = <<<<1, 2, 3>>>>
  /\ skip_res
  /\ result.rmserr = [n |-> 14, d |-> 3]

\* C4, as stated: a validated call with skip_res = true that returns normally
\* returns residues all zero, polynomial coefficients all zero and an RMS
\* error of exactly 0, for any N, n_polys, skip_pole and f.
C4_SkipResReturnsZeroError ==
  (pc = "returned" /\ skip_res) =>
    /\ AllZero(result.residues, <<0, 0>>)
    /\ AllZero(result.polys, 0)
    /\ result.rmserr = [n |-> 0, d |-> 1]

\* C4, amended: a validated call with skip_res = true that returns normally
\* returns residues all zero and polynomial coefficients all zero, and an RMS
\* error of exactly 0 unless N = 0 and n_polys = 0; in that case the RMS
\* error is the one of the zero model, norm(f) / sqrt(Nv * Ns).
C4_SkipResReturnsZeroModel ==
  (pc = "returned" /\ skip_res) =>
    /\ AllZero(result.residues, <<0, 0>>)
    /\ AllZero(result.polys, 0)
    /\ DOMAIN result.residues = 1..Nv
    /\ \A n \in 1..Nv : /\ Len(result.residues[n]) = N0
                        /\ Len(result.polys[n]) = n_polys
    /\ ~ZeroModel => result.rmserr = [n |-> 0, d |-> 1]
    /\ ZeroModel =>
         result.rmserr.n * (Nv * Ns) = SquaresOf(f.data) * result.rmserr.d

C4_Witness ==
  /\ pc = "returned"
  /\ skip_res
  /\ ~skip_pole
  /\ N0 = 2
  /\ n_polys = 2
  /\ "pole" \in stages

\* C5: a validated call with skip_pole = true that returns normally returns
\* the pole sequence supplied, element for element; the pole identification
\* stage is not entered when skip_pole is true or N = 0, and nothing else
\* assigns the poles.
C5_SkipPoleKeepsPoles ==
  /\ (pc = "returned" /\ skip_pole) => result.poles = poles0
  /\ (skip_pole \/ N0 = 0) => (poles = poles0 /\ "pole" \notin stages)

C5_Witness ==
  /\ pc = "returned"
  /\ skip_pole
  /\ ~skip_res
  /\ N0 = 3
  /\ result.poles = poles0
  /\ \E n \in 1..Nv, m \in 1..N0 : result.residues[n][m] # <<0, 0>>

\* C6, as stated: a validated call that returns normally with N > 0 or
\* n_polys > 0 has executed at least one of the two stages.
C6_SomeStageRan ==
  (pc = "returned" /\ ~ZeroModel) => stages # {}

\* C6, amended: a validated call that returns normally with N > 0 or
\* n_polys > 0 has executed at least one of the two stages unless skip_res is
\* true and either skip_pole is true or N = 0; in that case it returns having
\* run neither stage.
C6_SomeStageRanUnlessSkipped ==
  (pc = "returned" /\ ~ZeroModel) =>
    IF skip_res /\ (skip_pole \/ N0 = 0)
    THEN stages = {}
    ELSE stages # {}

C6_Witness ==
  /\ pc = "returned"
  /\ N0 > 0
  /\ ~skip_pole /\ ~skip_res
  /\ stages = {"pole", "residue"}

\* C7: once the recombination of the residue identification stage is done,
\* for every response vector n and every pole m tagged as the primary of a
\* pair (poles[m+1] = conj(poles[m])): residues[n, m] = Cr[n, m] + i*Cr[n, m+1]
\* and residues[n, m+1] = Cr[n, m] - i*Cr[n, m+1], its conjugate; for every
\* pole tagged real, residues[n, m] = Cr[n, m] with zero imaginary part; and
\* every residue column was written exactly once.
C7_ResidueConjugateSymmetry ==
  pc = "res_fit" =>
    /\ \A n \in 1..Nv : \A m \in 1..N :
         /\ cindex[m] = 1 =>
              /\ poles[m + 1] = <<Re(poles[m]), -Im(poles[m])>>
              /\ residues[n][m] = <<Cr[n][m], Cr[n][m + 1]>>
              /\ residues[n][m + 1] = <<Cr[n][m], -Cr[n][m + 1]>>
              /\ Re(residues[n][m + 1]) = Re(residues[n][m])
              /\ Im(residues[n][m + 1]) = -Im(residues[n][m])
         /\ cindex[m] = 0 => residues[n][m] = <<Cr[n][m], 0>>
    /\ \A m \in 1..N : writes[m] = 1

C7_Witness ==
  /\ pc = "res_fit"
  /\ \E m \in 1..N : cindex[m] = 1 /\ Cr[1][m + 1] # 0
  /\ \E m \in 1..N : cindex[m] = 0 /\ Cr[1][m] # 0

\* the value the spec gives the clamped D
ClampedD(xl) ==
  IF xl.n = 0 THEN [n |-> 1, e |-> 0]
  ELSE IF xl.e < -18 THEN [n |-> xl.n, e |-> -18]
  ELSE [n |-> xl.n, e |-> 18]

\* |D| < 1e-18 or |D| > 1e18
OutOfRange(xl) == xl.n = 0 \/ xl.e < -18 \/ xl.e > 18

\* C8: whenever the relaxed solve yields D with |D| < 1e-18 or |D| > 1e18,
\* ZER = LAMBD - SERB*C/D is formed from D clamped (1 if D is exactly 0, else
\* +/-1e-18 or +/-1e18 with the sign of D) and from the numerator coefficients
\* C of the non-relaxed re-solve; otherwise the relaxed C and D are used
\* unchanged.
C8_FallbackFeedsPoleUpdate ==
  pc = "pole_eig" =>
    IF OutOfRange(xlast)
    THEN ZER.D = ClampedD(xlast) /\ ZER.C = Cin
    ELSE ZER.D = xlast /\ ZER.C = C

\* C9: every basis matrix handed to a least-squares solve, in pole
\* identification and in residue identification, holds no infinite entry: an
\* entry that is infinite because a sample coincides with a pole has been
\* replaced by 1e18.
C9_NoInfiniteBasisEntry ==
  pc \in {"pole_solve", "res_solve"} =>
    \A k \in DOMAIN Dk : \A m \in DOMAIN Dk[k] : Dk[k][m].d # 0

\* C10: the scan of a pole sequence of length N >= 1 either fails with the
\* conjugate-pair error or ends with tags in {0, 1, 2} such that tag[m] = 0 iff
\* imag(poles[m]) = 0; tag[m] = 1 implies m+1 < N, tag[m+1] = 2 and
\* poles[m+1] = conj(poles[m]); tag[m] = 2 implies m > 0 and tag[m-1] = 1; a
\* complex pole in the last position with no preceding primary fails; and the
\* 'unknown cindex value' error is never thrown, in either stage.
C10_ClassifierCorrect ==
  /\ err # UnknownCindex
  /\ pc \in {"pole_basis", "res_basis"} =>
       /\ DOMAIN cindex = 1..N
       /\ \A m \in 1..N :
            /\ cindex[m] \in {0, 1, 2}
            /\ cindex[m] = 0 <=> Im(poles[m]) = 0
            /\ cindex[m] = 1 =>
                 /\ m + 1 <= N
                 /\ cindex[m + 1] = 2
                 /\ poles[m + 1] = <<Re(poles[m]), -Im(poles[m])>>
            /\ cindex[m] = 2 => (m > 1 /\ cindex[m - 1] = 1)
       /\ (N >= 1 /\ Im(poles[N]) # 0) => (N > 1 /\ cindex[N - 1] = 1)
  /\ (pc = "threw" /\ err = NotConjugatePairs) => ~Paired(poles)

C10_Witness ==
  /\ pc = "res_basis"
  /\ "pole" \in stages
  /\ cindex = <<0, 1, 2>>
====
